---- MODULE Spec2Model ----
(***************************************************************************)
(* Model of the file provider (provider/file/file.go): the snapshot        *)
(* builder loadFileConfig, the directory aggregator                        *)
(* loadFileConfigFromDirectory, Provide / BuildConfiguration, and the      *)
(* watch task spawned by addWatcher with its callback watcherCallback.     *)
(*                                                                         *)
(* Strings that the code inspects (file names, paths) are sequences of     *)
(* one-character strings, so that HasSuffix, Split, Dir and Join are       *)
(* computed on the characters.  A Go pointer that may be nil is a record   *)
(* [isNil, v]; a Go map that may be nil is a record [isNil, kv].           *)
(***************************************************************************)
EXTENDS Naturals, Sequences, FiniteSets

(***************************************************************************)
(* Bounds of the model.                                                    *)
(***************************************************************************)
\* entries of the root directory listing handed to the aggregator
MaxEntries == 2
\* filesystem events delivered to one watch task
MaxEvents == 2
\* capacity of the delivery channel (messages sent and not yet received)
ChanCap == 1

(***************************************************************************)
(* Strings.                                                                *)
(***************************************************************************)
EmptyStr == << >>
Slash == "/"

\* character order of the characters the model uses (ASCII order)
Alphabet == << ".", "/", "a", "b", "c", "d", "e", "f", "l", "m", "o", "p", "t", "y" >>

Ord(c) == CHOOSE i \in 1..Len(Alphabet) : Alphabet[i] = c

\* s < t in the byte-wise order sort.Slice uses on file names
RECURSIVE StrLess(_, _)
StrLess(s, t) ==
    IF t = EmptyStr THEN FALSE
    ELSE IF s = EmptyStr THEN TRUE
    ELSE IF Head(s) # Head(t) THEN Ord(Head(s)) < Ord(Head(t))
    ELSE StrLess(Tail(s), Tail(t))

\* strings.HasSuffix
HasSuffix(s, suffix) ==
    /\ Len(s) >= Len(suffix)
    /\ SubSeq(s, Len(s) - Len(suffix) + 1, Len(s)) = suffix

\* index of the last separator of path, 0 when there is none
LastSlash(path) ==
    LET idx == {i \in 1..Len(path) : path[i] = Slash}
    IN  IF idx = {} THEN 0 ELSE CHOOSE i \in idx : \A j \in idx : j <= i

\* filepath.Split(path): <<dir, file>>, split after the final separator
Split(path) ==
    LET i == LastSlash(path)
    IN  << SubSeq(path, 1, i), SubSeq(path, i + 1, Len(path)) >>

\* filepath.Dir(path) for the cleaned paths of the model: everything before
\* the final separator, "/" for a file of the root, "." without separator
Dir(path) ==
    LET i == LastSlash(path)
    IN  IF i = 0 THEN << "." >>
        ELSE IF i = 1 THEN << Slash >>
        ELSE SubSeq(path, 1, i - 1)

\* filepath.Join / path.Join of a directory and a name
Join(directory, name) == directory \o << Slash >> \o name

TomlSuffix == << ".", "t", "o", "m", "l" >>
TmplSuffix == << ".", "t", "m", "p", "l" >>

(***************************************************************************)
(* Configuration snapshots (config.Configuration).                         *)
(***************************************************************************)
Names == {"n1", "n2"}
TLSIds == {"t1", "t2"}
Kinds == {"Routers", "Middlewares", "Services"}

EmptyKV == << >>
NilMap == [isNil |-> TRUE, kv |-> EmptyKV]
\* make(map[string]*config.X)
MakeMap == [isNil |-> FALSE, kv |-> EmptyKV]

\* the zero value config.Configuration{}
ZeroConfiguration ==
    [Routers |-> NilMap, Middlewares |-> NilMap, Services |-> NilMap, TLS |-> << >>]

\* &config.Configuration{Routers: make(..), Middlewares: make(..), Services: make(..)}
EmptyDefaults ==
    [Routers |-> MakeMap, Middlewares |-> MakeMap, Services |-> MakeMap, TLS |-> << >>]

\* a nil *config.Configuration and a pointer to c
NilPtr == [isNil |-> TRUE, v |-> ZeroConfiguration]
Ptr(c) == [isNil |-> FALSE, v |-> c]

NoErr == "ok"

(***************************************************************************)
(* readFile and loadFileConfig.  A file node of the filesystem is          *)
(* [readable, text]; the text of a file is the pair of what the two        *)
(* decoders of BaseProvider return for it: text.tmpl is the result of      *)
(* CreateConfiguration (render as a template, then decode), text.toml the  *)
(* result of DecodeConfiguration (decode directly); each is [err, conf]    *)
(* with conf a pointer to a config.Configuration.                          *)
(***************************************************************************)
NoText == [tmpl |-> [err |-> TRUE, conf |-> NilPtr], toml |-> [err |-> TRUE, conf |-> NilPtr]]

\* readFile(filename) on the file node found at filename
ReadFile(filename, file) ==
    IF Len(filename) > 0
    THEN IF file.readable
         THEN [err |-> NoErr, content |-> file.text]
         ELSE [err |-> "read", content |-> NoText]
    ELSE [err |-> "read", content |-> NoText]

\* p.CreateConfiguration(fileContent, template.FuncMap{}, false)
CreateConfiguration(fileContent) == fileContent.tmpl

\* p.DecodeConfiguration(fileContent)
DecodeConfiguration(fileContent) == fileContent.toml

\* the condition of the empty-defaults normalization
NeedsDefaults(configuration) ==
    \/ configuration.isNil
    \/ /\ configuration.v.Routers.isNil
       /\ configuration.v.Middlewares.isNil
       /\ configuration.v.Services.isNil
       /\ configuration.v.TLS = << >>

\* loadFileConfig(filename, parseTemplate): [conf, err]
LoadFileConfig(filename, file, parseTemplate) ==
    LET r == ReadFile(filename, file)
    IN  IF r.err # NoErr
        THEN [conf |-> NilPtr, err |-> "read"]
        ELSE LET d == IF parseTemplate
                      THEN CreateConfiguration(r.content)
                      ELSE DecodeConfiguration(r.content)
             IN  IF d.err
                 THEN [conf |-> NilPtr, err |-> "decode"]
                 ELSE IF NeedsDefaults(d.conf)
                      THEN [conf |-> Ptr(EmptyDefaults), err |-> NoErr]
                      ELSE [conf |-> d.conf, err |-> NoErr]

(***************************************************************************)
(* loadFileConfigFromDirectory.  A directory node is [listable, items],    *)
(* items being what ioutil.ReadDir returns: the entries sorted by name,    *)
(* each [name, isDir, node].  The logger is modelled by the bag of the     *)
(* "already configured, skipping" warnings, keyed by <<kind, name>>.       *)
(***************************************************************************)
WarnKeys == (Kinds \X Names) \cup ({"TLS"} \X TLSIds)
NoWarnings == [k \in WarnKeys |-> 0]

Range(s) == {s[i] : i \in 1..Len(s)}

\* every order in which a range over a Go map with key set S may yield S
Orders(S) ==
    {s \in [1..Cardinality(S) -> S] : \A i, j \in 1..Cardinality(S) : s[i] = s[j] => i = j}

\* MergeMap with the existence test dropped: the incoming entry overwrites
MergeMapLastWins(acc, inc) ==
    [isNil |-> acc.isNil,
     kv |-> [n \in (DOMAIN acc.kv) \cup (DOMAIN inc.kv) |->
                IF n \in DOMAIN inc.kv THEN inc.kv[n] ELSE acc.kv[n]]]

\* the loop "for name, conf := range c.X" over the incoming map inc, on the
\* accumulator's map acc: a name already present is kept, a new one inserted
MergeMap(acc, inc) ==
    [isNil |-> acc.isNil,
     kv |-> [n \in (DOMAIN acc.kv) \cup (DOMAIN inc.kv) |->
                IF n \in DOMAIN acc.kv THEN acc.kv[n] ELSE inc.kv[n]]]

\* the three merge loops of one file c into the accumulator
MergeConfig(configuration, c) ==
    [Routers |-> MergeMap(configuration.Routers, c.Routers),
     Middlewares |-> MergeMap(configuration.Middlewares, c.Middlewares),
     Services |-> MergeMap(configuration.Services, c.Services),
     TLS |-> configuration.TLS]

\* the loops over one file c logging a warning for every name of c, in
\* the accumulator already or not
MergeWarningsAlways(warns, configuration, configTLSMaps, c) ==
    [k \in WarnKeys |->
        IF k[1] = "TLS"
        THEN warns[k] + Cardinality({i \in 1..Len(c.TLS) : c.TLS[i] = k[2] /\
                 (k[2] \in configTLSMaps \/ \E j \in 1..(i - 1) : c.TLS[j] = k[2])})
        ELSE IF k[2] \in DOMAIN c[k[1]].kv
             THEN warns[k] + 1
             ELSE warns[k]]

\* the warnings the loops over one file c log
MergeWarnings(warns, configuration, configTLSMaps, c) ==
    [k \in WarnKeys |->
        IF k[1] = "TLS"
        THEN warns[k] + Cardinality({i \in 1..Len(c.TLS) : c.TLS[i] = k[2] /\
                 (k[2] \in configTLSMaps \/ \E j \in 1..(i - 1) : c.TLS[j] = k[2])})
        ELSE IF k[2] \in (DOMAIN configuration[k[1]].kv) \cap (DOMAIN c[k[1]].kv)
             THEN warns[k] + 1
             ELSE warns[k]]

\* Eligible with the extension test lost: every file is loaded
EligibleAnyFile(name) == TRUE

\* the test of the entry's name against the two recognized extensions
Eligible(name) == HasSuffix(name, TomlSuffix) \/ HasSuffix(name, TmplSuffix)

\* the final loop "for conf := range configTLSMaps": one result per order
AppendTLS(configuration, configTLSMaps) ==
    {[configuration EXCEPT !.TLS = configuration.TLS \o order] : order \in Orders(configTLSMaps)}

RECURSIVE LoadFileConfigFromDirectory(_, _, _, _)
RECURSIVE WalkItems(_, _, _, _, _, _)

\* the loop over fileList from entry i on, with the accumulator, this
\* call's configTLSMaps and the warnings logged so far: the set of the
\* possible results [conf, err, warns] of the call
WalkItems(directory, fileList, i, configuration, configTLSMaps, warns) ==
    IF i > Len(fileList)
    THEN {[conf |-> Ptr(c), err |-> NoErr, warns |-> warns] :
              c \in AppendTLS(configuration, configTLSMaps)}
    ELSE LET item == fileList[i]
         IN  IF item.isDir
             THEN UNION {
                    IF sub.err # NoErr
                    THEN {[conf |-> sub.conf, err |-> "subdirectory", warns |-> sub.warns]}
                    ELSE WalkItems(directory, fileList, i + 1, sub.conf.v,
                                   configTLSMaps, sub.warns) :
                    sub \in LoadFileConfigFromDirectory(Join(directory, item.name),
                                                         item.node, Ptr(configuration), warns)}
             ELSE IF ~Eligible(item.name)
             THEN WalkItems(directory, fileList, i + 1, configuration, configTLSMaps, warns)
             ELSE LET r == LoadFileConfig(Join(directory, item.name), item.node, TRUE)
                  IN  IF r.err # NoErr
                      THEN {[conf |-> Ptr(configuration), err |-> r.err, warns |-> warns]}
                      ELSE WalkItems(directory, fileList, i + 1,
                                     MergeConfig(configuration, r.conf.v),
                                     configTLSMaps \cup Range(r.conf.v.TLS),
                                     MergeWarnings(warns, configuration, configTLSMaps, r.conf.v))

\* loadFileConfigFromDirectory(ctx, directory, configuration) on the
\* directory node found at directory
LoadFileConfigFromDirectory(directory, node, configuration, warns) ==
    IF ~node.listable
    THEN {[conf |-> configuration, err |-> "readdir", warns |-> warns]}
    ELSE WalkItems(directory, node.items, 1,
                   IF configuration.isNil THEN EmptyDefaults ELSE configuration.v,
                   {}, warns)

(***************************************************************************)
(* The directory trees handed to the aggregator.  An entity decoded from   *)
(* a file is a pointer allocated by that decode: its payload is modelled   *)
(* by the path of the file it comes from.  A TLS entry is one of TLSIds,   *)
(* its identity.                                                           *)
(***************************************************************************)
RootDir == << "/", "c" >>
FileNames == { << "b" >> \o TomlSuffix, << "c" >> \o TmplSuffix, << "d", ".", "y", "m", "l" >> }
DirNames == { << "a" >>, << "e" >> }

OneEntry(kind, name, payload) ==
    [ZeroConfiguration EXCEPT ![kind] = [isNil |-> FALSE, kv |-> [n \in {name} |-> payload]]]

\* what a decoder may return for the file at path: an error, no
\* configuration, or a configuration of at most one entity or TLS entry
DecodeResults(path) ==
    {[err |-> TRUE, conf |-> NilPtr], [err |-> FALSE, conf |-> NilPtr],
     [err |-> FALSE, conf |-> Ptr(ZeroConfiguration)]}
    \cup {[err |-> FALSE, conf |-> Ptr(OneEntry(k, n, path))] : k \in Kinds, n \in Names}
    \cup {[err |-> FALSE, conf |-> Ptr([ZeroConfiguration EXCEPT !.TLS = << t >>])] : t \in TLSIds}

\* the file nodes that may be found at path: unreadable, or a plain file
\* (no template directive: both decoders return the same)
FileNodes(path) ==
    {[readable |-> FALSE, text |-> NoText]}
    \cup {[readable |-> TRUE, text |-> [tmpl |-> d, toml |-> d]] : d \in DecodeResults(path)}

FileEntries(directory) ==
    UNION {{[name |-> n, isDir |-> FALSE, node |-> f] : f \in FileNodes(Join(directory, n))} :
              n \in FileNames}

\* a listing as ioutil.ReadDir returns it: the entries sorted by name
Sorted(s) == \A i \in 1..(Len(s) - 1) : StrLess(s[i].name, s[i + 1].name)

\* a subdirectory: unlistable, empty, or holding one file
SubDirNodes(directory) ==
    {[listable |-> FALSE, items |-> << >>], [listable |-> TRUE, items |-> << >>]}
    \cup {[listable |-> TRUE, items |-> << e >>] : e \in FileEntries(directory)}

DirEntries(directory) ==
    UNION {{[name |-> n, isDir |-> TRUE, node |-> d] : d \in SubDirNodes(Join(directory, n))} :
              n \in DirNames}

RootEntries == FileEntries(RootDir) \cup DirEntries(RootDir)

\* the root directory is unlistable, or lists at most MaxEntries entries
IsTree(t) ==
    \/ t = [listable |-> FALSE, items |-> << >>]
    \/ \E k \in 0..MaxEntries : \E s \in [1..k -> RootEntries] :
          /\ Sorted(s)
          /\ t = [listable |-> TRUE, items |-> s]

(***************************************************************************)
(* The provider and what it may find on disk.  The filesystem belongs to   *)
(* the environment and may change between any two reads: every os.Stat,    *)
(* ioutil.ReadDir and ioutil.ReadFile draws what it finds from the sets    *)
(* below at the moment of the call.                                        *)
(***************************************************************************)
FilePath == << "/", "d", "/", "f" >>
TraefikPath == << "/", "d", "/", "t" >>
OtherPath == << "/", "d", "/", "o" >>
MovedPath == << "/", "e", "/", "f" >>

\* the provider's fields: each path is set or left empty
Providers ==
    [Directory : {EmptyStr, RootDir}, Filename : {EmptyStr, FilePath},
     TraefikFile : {EmptyStr, TraefikPath}, Watch : BOOLEAN]

\* the paths fsnotify events may carry (evt.Name)
EventNames == {FilePath, TraefikPath, OtherPath, MovedPath}

RoutersOnly(path) == OneEntry("Routers", "n1", path)

\* the file nodes a build of the provider may find at path
WatchFiles(path) ==
    {[readable |-> FALSE, text |-> NoText]}
    \cup {[readable |-> TRUE, text |-> [tmpl |-> d, toml |-> d]] :
            d \in {[err |-> TRUE, conf |-> NilPtr],
                   [err |-> FALSE, conf |-> Ptr(ZeroConfiguration)],
                   [err |-> FALSE, conf |-> Ptr(RoutersOnly(path))]}}
    \* a template: it renders and decodes, and fails to decode directly
    \cup {[readable |-> TRUE,
           text |-> [tmpl |-> [err |-> FALSE, conf |-> Ptr(RoutersOnly(path))],
                     toml |-> [err |-> TRUE, conf |-> NilPtr]]]}

\* the directory nodes a build of the provider may find at directory
WatchTrees(directory) ==
    {[listable |-> FALSE, items |-> << >>], [listable |-> TRUE, items |-> << >>]}
    \cup {[listable |-> TRUE,
           items |-> << [name |-> << "b" >> \o TomlSuffix, isDir |-> FALSE, node |-> f] >>] :
             f \in WatchFiles(Join(directory, << "b" >> \o TomlSuffix))}
    \* a subdirectory that cannot be listed
    \cup {[listable |-> TRUE,
           items |-> << [name |-> << "a" >>, isDir |-> TRUE,
                         node |-> [listable |-> FALSE, items |-> << >>]] >>]}

\* BuildConfiguration without its last return: empty defaults and no error
NoTargetDefaults == {[conf |-> Ptr(EmptyDefaults), err |-> NoErr, read |-> EmptyStr]}

\* the last return of BuildConfiguration, no target being set
NoTarget == {[conf |-> NilPtr, err |-> "no filename defined", read |-> EmptyStr]}

\* BuildConfiguration: the results [conf, err, read] it may return, read
\* being the path it loads from
BuildConfiguration(p) ==
    IF Len(p.Directory) > 0
    THEN UNION {{[conf |-> r.conf, err |-> r.err, read |-> p.Directory] :
                    r \in LoadFileConfigFromDirectory(p.Directory, t, NilPtr, NoWarnings)} :
                 t \in WatchTrees(p.Directory)}
    ELSE IF Len(p.Filename) > 0
    THEN {[conf |-> r.conf, err |-> r.err, read |-> p.Filename] :
             r \in {LoadFileConfig(p.Filename, f, TRUE) : f \in WatchFiles(p.Filename)}}
    ELSE IF Len(p.TraefikFile) > 0
    THEN {[conf |-> r.conf, err |-> r.err, read |-> p.TraefikFile] :
             r \in {LoadFileConfig(p.TraefikFile, f, FALSE) : f \in WatchFiles(p.TraefikFile)}}
    ELSE NoTarget

\* the directory Provide hands to addWatcher
WatchItem(p) ==
    IF Len(p.Directory) > 0 THEN p.Directory
    ELSE IF Len(p.Filename) > 0 THEN Dir(p.Filename)
    ELSE Dir(p.TraefikFile)

\* the filter comparing the whole paths instead of the file names
RelevantWholePath(p, evtName) ==
    IF p.Directory = EmptyStr
    THEN evtName = (IF Len(p.Filename) > 0 THEN p.Filename ELSE p.TraefikFile)
    ELSE TRUE

\* the filter of the watch task: whether an event named evtName reaches
\* the callback
Relevant(p, evtName) ==
    IF p.Directory = EmptyStr
    THEN LET filename == IF Len(p.Filename) > 0 THEN p.Filename ELSE p.TraefikFile
             evtFileName == Split(evtName)[2]
             confFileName == Split(filename)[2]
         IN  evtFileName = confFileName
    ELSE TRUE

\* watcherCallback choosing the filename before the directory
CallbackWatchItemFileFirst(p) ==
    IF Len(p.Filename) > 0 THEN p.Filename
    ELSE IF Len(p.Directory) > 0 THEN p.Directory
    ELSE p.TraefikFile

\* the path watcherCallback hands to os.Stat
CallbackWatchItem(p) ==
    IF Len(p.Directory) > 0 THEN p.Directory
    ELSE IF Len(p.Filename) > 0 THEN p.Filename
    ELSE p.TraefikFile

\* watcherCallback: its possible outcomes [exists, err, conf, stat, read];
\* a message is sent exactly for exists /\ err = NoErr
WatcherCallback(p) ==
    {[exists |-> FALSE, err |-> NoErr, conf |-> NilPtr,
      stat |-> CallbackWatchItem(p), read |-> EmptyStr]}
    \cup {[exists |-> TRUE, err |-> r.err, conf |-> r.conf,
           stat |-> CallbackWatchItem(p), read |-> r.read] : r \in BuildConfiguration(p)}

\* watcherCallback without the return after a failed os.Stat
CallbackSendsUnchecked(c) == c.err = NoErr

\* watcherCallback without the return after a failed rebuild
CallbackSendsAnyway(c) == c.exists

\* whether watcherCallback reaches its send: the target exists and the
\* rebuild returned no error
CallbackSends(c) == c.exists /\ c.err = NoErr

\* config.Message{ProviderName: "file", Configuration: configuration}; from
\* records which sender put it on the channel
Message(configuration, from) ==
    [ProviderName |-> "file", Configuration |-> configuration, from |-> from]

(***************************************************************************)
(* State.                                                                  *)
(***************************************************************************)
VARIABLES
    p,              \* the provider's fields
    provide,        \* where the call of Provide is: "start", "send", "returned"
    provideErr,     \* the error Provide returned, NoErr for nil
    configuration,  \* the snapshot of the initial build, held by Provide
    built,          \* what the initial build returned: its error and the path it loaded
    watcher,        \* the fsnotify watcher: "none", "open", "closed"
    watched,        \* the directory added to the watcher
    task,           \* the watch task: "none", "select", "send", "done"
    taskConf,       \* the snapshot the watch task is sending
    stop,           \* whether the pool has raised the task's stop signal
    notified,       \* events and errors the watcher has delivered to the task
    last,           \* how the task handled the last event or error it received
    rebuilt,        \* relevant events whose rebuild succeeded so far
    failures,       \* relevant events whose rebuild failed so far
    missing,        \* relevant events that found the target missing so far
    sent,           \* the messages put on configurationChan, in order
    received,       \* how many of them the consumer has taken
    tree,           \* the directory tree the aggregator is run on
    run1,           \* the result of a first run of the aggregator on tree
    run2,           \* the result of a second run on the same tree
    fileNode,       \* the file node loadFileConfig is called on
    parseTemplate,  \* the parseTemplate argument of that call
    loaded          \* what the call returned

provVars == << p, provide, provideErr, configuration, built, watcher, watched, task, taskConf,
               stop, notified, last, rebuilt, failures, missing, sent, received >>
aggVars == << tree, run1, run2 >>
loadVars == << fileNode, parseTemplate, loaded >>
vars == << p, provide, provideErr, configuration, built, watcher, watched, task, taskConf,
           stop, notified, last, rebuilt, failures, missing, sent, received, tree, run1, run2,
           fileNode, parseTemplate, loaded >>

NotRun == [done |-> FALSE, conf |-> NilPtr, err |-> NoErr, warns |-> NoWarnings]
Ran(r) == [done |-> TRUE, conf |-> r.conf, err |-> r.err, warns |-> r.warns]

NotBuilt == [done |-> FALSE, err |-> NoErr, read |-> EmptyStr]
NotLoaded == [done |-> FALSE, conf |-> NilPtr, err |-> NoErr]
NoFile == [readable |-> FALSE, text |-> NoText]

\* kind is "none" before any notification, "event" for a filesystem event
\* and "error" for an error of the watcher
NoEvent ==
    [kind |-> "none", name |-> EmptyStr, called |-> FALSE, exists |-> FALSE, err |-> NoErr,
     conf |-> NilPtr, stat |-> EmptyStr, read |-> EmptyStr]

\* no call of loadFileConfig on its own
LoadIdle ==
    /\ fileNode = NoFile
    /\ parseTemplate = FALSE
    /\ loaded = NotLoaded

\* the provider before Provide is called, whatever its fields
ProvInit ==
    /\ p \in Providers
    /\ provide = "start"
    /\ provideErr = NoErr
    /\ configuration = NilPtr
    /\ built = NotBuilt
    /\ watcher = "none"
    /\ watched = EmptyStr
    /\ task = "none"
    /\ taskConf = NilPtr
    /\ stop = FALSE
    /\ notified = 0
    /\ last = NoEvent
    /\ rebuilt = 0
    /\ failures = 0
    /\ missing = 0
    /\ sent = << >>
    /\ received = 0

Init ==
    /\ ProvInit
    /\ tree = [listable |-> FALSE, items |-> << >>]
    /\ run1 = NotRun
    /\ run2 = NotRun
    /\ LoadIdle

(***************************************************************************)
(* Provide.                                                                *)
(***************************************************************************)
\* addWatcher handing the task to the pool before it adds the directory
AddWatcherTaskFirst(directory) ==
    \/ /\ provideErr' = "error creating file watcher"
       /\ UNCHANGED << watcher, watched, task >>
    \/ /\ provideErr' = "error adding file watcher"
       /\ watcher' = "open"
       /\ task' = "select"
       /\ UNCHANGED watched
    \/ /\ provideErr' = NoErr
       /\ watcher' = "open"
       /\ watched' = directory
       /\ task' = "select"

\* addWatcher(pool, directory, configurationChan, callback) up to its
\* return: fsnotify.NewWatcher fails, watcher.Add fails, or the task is
\* handed to the pool
AddWatcher(directory) ==
    \/ /\ provideErr' = "error creating file watcher"
       /\ UNCHANGED << watcher, watched, task >>
    \/ /\ provideErr' = "error adding file watcher"
       /\ watcher' = "open"
       /\ UNCHANGED << watched, task >>
    \/ /\ provideErr' = NoErr
       /\ watcher' = "open"
       /\ watched' = directory
       /\ task' = "select"

\* Provide going on after an error instead of returning it
ProvideGoesOn(err) == FALSE

\* if err != nil { return err }, after the build and after addWatcher
ProvideReturns(err) == err # NoErr

\* Provide from its call to its first blocking point: the initial build,
\* then with Watch the subscription; an error of either is returned
ProvideCall ==
    /\ provide = "start"
    /\ \E r \in BuildConfiguration(p) :
          /\ built' = [done |-> TRUE, err |-> r.err, read |-> r.read]
          /\ IF ProvideReturns(r.err)
             THEN /\ provide' = "returned"
                  /\ provideErr' = r.err
                  /\ UNCHANGED << configuration, watcher, watched, task >>
             ELSE /\ configuration' = r.conf
                  /\ IF p.Watch
                     THEN /\ AddWatcher(WatchItem(p))
                          /\ provide' = IF ProvideReturns(provideErr') THEN "returned"
                                        ELSE "send"
                     ELSE /\ provide' = "send"
                          /\ UNCHANGED << provideErr, watcher, watched, task >>
    /\ UNCHANGED << p, taskConf, stop, notified, last, rebuilt, failures, missing, sent, received, aggVars, loadVars >>

\* a send that gives up on a full channel instead of blocking
SendOrDrop(conf, from) ==
    IF Len(sent) - received < ChanCap
    THEN sent' = Append(sent, Message(conf, from))
    ELSE sent' = sent

\* sendConfigToChannel: the send blocks while the channel is full
SendConfigToChannel(conf, from) ==
    /\ Len(sent) - received < ChanCap
    /\ sent' = Append(sent, Message(conf, from))

\* the send of the initial snapshot, and Provide's return of nil
ProvideSend ==
    /\ provide = "send"
    /\ SendConfigToChannel(configuration, "initial")
    /\ provide' = "returned"
    /\ UNCHANGED << p, provideErr, configuration, built, watcher, watched, task, taskConf,
                    stop, notified, last, rebuilt, failures, missing, received, aggVars, loadVars >>

(***************************************************************************)
(* The watch task.                                                         *)
(***************************************************************************)
\* case evt := <-watcher.Events: the filter, and for a relevant event the
\* callback up to its send
TaskEvent ==
    /\ task = "select"
    /\ notified < MaxEvents
    /\ notified' = notified + 1
    /\ \E evtName \in EventNames :
          IF Relevant(p, evtName)
          THEN \E c \in WatcherCallback(p) :
                  /\ last' = [kind |-> "event",
                              name |-> evtName, called |-> TRUE, exists |-> c.exists,
                              err |-> c.err, conf |-> c.conf, stat |-> c.stat, read |-> c.read]
                  /\ IF CallbackSends(c)
                     THEN /\ task' = "send"
                          /\ taskConf' = c.conf
                     ELSE UNCHANGED << task, taskConf >>
                  /\ rebuilt' = IF c.exists /\ c.err = NoErr THEN rebuilt + 1 ELSE rebuilt
                  /\ failures' = IF c.exists /\ c.err # NoErr THEN failures + 1 ELSE failures
                  /\ missing' = IF c.exists THEN missing ELSE missing + 1
          ELSE /\ last' = [NoEvent EXCEPT !.kind = "event", !.name = evtName]
               /\ UNCHANGED << task, taskConf, rebuilt, failures, missing >>
    /\ UNCHANGED << p, provide, provideErr, configuration, built, watcher, watched, stop,
                    sent, received, aggVars, loadVars >>

\* the send at the end of watcherCallback, back to the select
TaskSend ==
    /\ task = "send"
    /\ SendConfigToChannel(taskConf, "watch")
    /\ task' = "select"
    /\ UNCHANGED << p, provide, provideErr, configuration, built, watcher, watched, taskConf,
                    stop, notified, last, rebuilt, failures, missing, received, aggVars, loadVars >>

\* an error of the watcher that ends the task as the stop signal does
TaskErrorReturns ==
    /\ task = "select"
    /\ notified < MaxEvents
    /\ notified' = notified + 1
    /\ last' = [NoEvent EXCEPT !.kind = "error"]
    /\ task' = "done"
    /\ watcher' = "closed"
    /\ UNCHANGED << p, provide, provideErr, configuration, built, watched,
                    taskConf, stop, rebuilt, failures, missing, sent, received, aggVars, loadVars >>

\* case err := <-watcher.Errors: logged
TaskError ==
    /\ task = "select"
    /\ notified < MaxEvents
    /\ notified' = notified + 1
    /\ last' = [NoEvent EXCEPT !.kind = "error"]
    /\ UNCHANGED << p, provide, provideErr, configuration, built, watcher, watched, task,
                    taskConf, stop, rebuilt, failures, missing, sent, received, aggVars, loadVars >>

\* the stop case without the deferred watcher.Close()
TaskStopNoClose ==
    /\ task = "select"
    /\ stop
    /\ task' = "done"
    /\ UNCHANGED << p, provide, provideErr, configuration, built, watcher, watched, taskConf, stop,
                    notified, last, rebuilt, failures, missing, sent, received, aggVars, loadVars >>

\* case <-stop: return, and the deferred watcher.Close()
TaskStop ==
    /\ task = "select"
    /\ stop
    /\ task' = "done"
    /\ watcher' = "closed"
    /\ UNCHANGED << p, provide, provideErr, configuration, built, watched, taskConf, stop,
                    notified, last, rebuilt, failures, missing, sent, received, aggVars, loadVars >>

(***************************************************************************)
(* The environment: the pool's stop and the consumer of the channel.       *)
(***************************************************************************)
Stop ==
    /\ task \in {"select", "send"}
    /\ ~stop
    /\ stop' = TRUE
    /\ UNCHANGED << p, provide, provideErr, configuration, built, watcher, watched, task,
                    taskConf, notified, last, rebuilt, failures, missing, sent, received, aggVars, loadVars >>

Receive ==
    /\ received < Len(sent)
    /\ received' = received + 1
    /\ UNCHANGED << p, provide, provideErr, configuration, built, watcher, watched, task,
                    taskConf, stop, notified, last, rebuilt, failures, missing, sent, aggVars, loadVars >>

Next ==
    \/ ProvideCall
    \/ ProvideSend
    \/ TaskEvent
    \/ TaskSend
    \/ TaskError
    \/ TaskStop
    \/ Stop
    \/ Receive

Spec == Init /\ [][Next]_vars

\* the task runs its own steps; the select takes a ready stop case sooner
\* or later (Go chooses among the ready cases uniformly at random).  The
\* environment owes nothing: events, stop and the consumer's receives
FairSpec == Spec /\ WF_vars(TaskSend) /\ SF_vars(TaskStop)

(***************************************************************************)
(* The aggregator run on a directory tree, twice.                          *)
(***************************************************************************)
AggInit ==
    /\ IsTree(tree)
    /\ run1 = NotRun
    /\ run2 = NotRun
    /\ LoadIdle
    /\ p = [Directory |-> RootDir, Filename |-> EmptyStr, TraefikFile |-> EmptyStr,
            Watch |-> FALSE]
    /\ provide = "start"
    /\ provideErr = NoErr
    /\ configuration = NilPtr
    /\ built = NotBuilt
    /\ watcher = "none"
    /\ watched = EmptyStr
    /\ task = "none"
    /\ taskConf = NilPtr
    /\ stop = FALSE
    /\ notified = 0
    /\ last = NoEvent
    /\ rebuilt = 0
    /\ failures = 0
    /\ missing = 0
    /\ sent = << >>
    /\ received = 0

\* p.loadFileConfigFromDirectory(ctx, p.Directory, nil), a first time
Aggregate ==
    /\ ~run1.done
    /\ \E r \in LoadFileConfigFromDirectory(p.Directory, tree, NilPtr, NoWarnings) :
           run1' = Ran(r)
    /\ UNCHANGED << tree, run2, provVars, loadVars >>

\* the same call a second time, the tree unchanged
AggregateAgain ==
    /\ run1.done
    /\ ~run2.done
    /\ \E r \in LoadFileConfigFromDirectory(p.Directory, tree, NilPtr, NoWarnings) :
           run2' = Ran(r)
    /\ UNCHANGED << tree, run1, provVars, loadVars >>

AggNext == Aggregate \/ AggregateAgain

AggSpec == AggInit /\ [][AggNext]_vars

(***************************************************************************)
(* loadFileConfig called on one file, with either value of parseTemplate.  *)
(***************************************************************************)
\* a configuration whose sections of kinds are present and empty (a table
\* header without entries), the others absent
EmptySections(kinds) ==
    [Routers |-> IF "Routers" \in kinds THEN MakeMap ELSE NilMap,
     Middlewares |-> IF "Middlewares" \in kinds THEN MakeMap ELSE NilMap,
     Services |-> IF "Services" \in kinds THEN MakeMap ELSE NilMap,
     TLS |-> << >>]

\* what a decoder may return for the file loaded: as DecodeResults, or a
\* configuration of empty sections
LoadDecodeResults ==
    DecodeResults(FilePath)
    \cup {[err |-> FALSE, conf |-> Ptr(EmptySections(ks))] : ks \in SUBSET Kinds}

\* the file nodes loadFileConfig may find: unreadable, or a text for which
\* each of the two decoders returns one of LoadDecodeResults
LoadFiles ==
    {NoFile}
    \cup {[readable |-> TRUE, text |-> [tmpl |-> d1, toml |-> d2]] :
            d1 \in LoadDecodeResults, d2 \in LoadDecodeResults}

LoadInit ==
    /\ fileNode \in LoadFiles
    /\ parseTemplate \in BOOLEAN
    /\ loaded = NotLoaded
    /\ p = [Directory |-> EmptyStr, Filename |-> FilePath, TraefikFile |-> EmptyStr,
            Watch |-> FALSE]
    /\ provide = "start"
    /\ provideErr = NoErr
    /\ configuration = NilPtr
    /\ built = NotBuilt
    /\ watcher = "none"
    /\ watched = EmptyStr
    /\ task = "none"
    /\ taskConf = NilPtr
    /\ stop = FALSE
    /\ notified = 0
    /\ last = NoEvent
    /\ rebuilt = 0
    /\ failures = 0
    /\ missing = 0
    /\ sent = << >>
    /\ received = 0
    /\ tree = [listable |-> FALSE, items |-> << >>]
    /\ run1 = NotRun
    /\ run2 = NotRun

\* p.loadFileConfig(p.Filename, parseTemplate)
Load ==
    /\ ~loaded.done
    /\ LET r == LoadFileConfig(p.Filename, fileNode, parseTemplate)
       IN  loaded' = [done |-> TRUE, conf |-> r.conf, err |-> r.err]
    /\ UNCHANGED << fileNode, parseTemplate, provVars, aggVars >>

LoadNext == Load

LoadSpec == LoadInit /\ [][LoadNext]_vars

(***************************************************************************)
(* Properties of the aggregator (AggSpec).  The traversal they refer to    *)
(* is defined on the tree alone, apart from the aggregator's operators.    *)
(***************************************************************************)
\* the characters of name from its last "." on, empty without a "."
Extension(name) ==
    LET dots == {i \in 1..Len(name) : name[i] = "."}
    IN  IF dots = {} THEN EmptyStr
        ELSE SubSeq(name, CHOOSE i \in dots : \A j \in dots : j <= i, Len(name))

IsConfigFile(name) == Extension(name) \in {TomlSuffix, TmplSuffix}

RECURSIVE DepthFirst(_, _)
RECURSIVE DepthFirstFrom(_, _, _)

\* the .toml and .tmpl files under a directory, as [path, node], in
\* depth-first order: entries in listing order, a subdirectory's files at
\* the position of its entry
DepthFirstFrom(directory, items, i) ==
    IF i > Len(items) THEN << >>
    ELSE LET item == items[i]
             here == IF item.isDir THEN DepthFirst(Join(directory, item.name), item.node)
                     ELSE IF IsConfigFile(item.name)
                          THEN << [path |-> Join(directory, item.name), node |-> item.node] >>
                          ELSE << >>
         IN  here \o DepthFirstFrom(directory, items, i + 1)

DepthFirst(directory, node) == DepthFirstFrom(directory, node.items, 1)

TreeFiles == DepthFirst(p.Directory, tree)

\* the names of one kind that the file f defines
Declares(f, kind) ==
    IF f.node.text.tmpl.conf.isNil THEN {} ELSE DOMAIN f.node.text.tmpl.conf.v[kind].kv

\* the TLS identities that the file f holds
DeclaresTLS(f) ==
    IF f.node.text.tmpl.conf.isNil THEN {} ELSE Range(f.node.text.tmpl.conf.v.TLS)

Definers(kind, name) == {i \in 1..Len(TreeFiles) : name \in Declares(TreeFiles[i], kind)}

Least(S) == CHOOSE i \in S : \A j \in S : i <= j

RunOK(run) == run.done /\ run.err = NoErr

\* C1: after a successful run, every router, middleware or service name
\* that some file of the tree defines is mapped to the payload of the first
\* file of the depth-first traversal that defines it
C1_FirstWins ==
    RunOK(run1) =>
        \A kind \in Kinds, name \in Names :
            Definers(kind, name) # {} =>
                /\ name \in DOMAIN run1.conf.v[kind].kv
                /\ run1.conf.v[kind].kv[name] = TreeFiles[Least(Definers(kind, name))].path

\* a successful run on a tree where a name is defined by two files, the
\* first of them in a subdirectory listed before the second
C1_Witness ==
    /\ RunOK(run1)
    /\ \E kind \in Kinds, name \in Names :
          /\ Cardinality(Definers(kind, name)) >= 2
          /\ Len(tree.items) = 2
          /\ tree.items[1].isDir

\* C6: after a successful run, every TLS identity held by some file of the
\* tree occurs exactly once in the TLS collection of the snapshot
C6_TLSOnce ==
    RunOK(run1) =>
        \A t \in TLSIds :
            (\E i \in 1..Len(TreeFiles) : t \in DeclaresTLS(TreeFiles[i])) =>
                Cardinality({j \in 1..Len(run1.conf.v.TLS) : run1.conf.v.TLS[j] = t}) = 1

\* C7: two successful runs on the same tree return the same snapshot, the
\* TLS collection in the same order
C7_Idempotent ==
    (RunOK(run1) /\ RunOK(run2)) => run1.conf = run2.conf

DisjointNames ==
    \A kind \in Kinds : \A i, j \in 1..Len(TreeFiles) :
        i # j => Declares(TreeFiles[i], kind) \cap Declares(TreeFiles[j], kind) = {}

RECURSIVE SumSizes(_, _, _)
SumSizes(files, kind, i) ==
    IF i > Len(files) THEN 0
    ELSE Cardinality(Declares(files[i], kind)) + SumSizes(files, kind, i + 1)

\* C8: after a successful run on a tree whose .toml and .tmpl files define
\* pairwise disjoint names, each mapping holds exactly the entities of
\* those files (and of no other file), its size the sum of their sizes
C8_DisjointUnion ==
    (RunOK(run1) /\ DisjointNames) =>
        \A kind \in Kinds :
            LET kv == run1.conf.v[kind].kv
            IN  /\ DOMAIN kv = UNION {Declares(TreeFiles[i], kind) : i \in 1..Len(TreeFiles)}
                /\ \A i \in 1..Len(TreeFiles) : \A name \in Declares(TreeFiles[i], kind) :
                       kv[name] = TreeFiles[i].path
                /\ Cardinality(DOMAIN kv) = SumSizes(TreeFiles, kind, 1)

\* a successful run on two files that define two different routers
C8_Witness ==
    /\ RunOK(run1)
    /\ DisjointNames
    /\ Len(TreeFiles) = 2
    /\ Declares(TreeFiles[1], "Routers") # {}
    /\ Declares(TreeFiles[2], "Routers") # {}
    /\ Cardinality(DOMAIN run1.conf.v.Routers.kv) = 2

(***************************************************************************)
(* Properties of the provider (Spec, FairSpec).                            *)
(***************************************************************************)
NonNilMaps(configuration_) ==
    /\ ~configuration_.isNil
    /\ ~configuration_.v.Routers.isNil
    /\ ~configuration_.v.Middlewares.isNil
    /\ ~configuration_.v.Services.isNil

\* C2: in every message put on the channel the snapshot's routers,
\* middlewares and services mappings are all non-nil
C2_NonNilMaps ==
    \A i \in 1..Len(sent) : NonNilMaps(sent[i].Configuration)

WatchMessages == {i \in 1..Len(sent) : sent[i].from = "watch"}

\* the events handled so far whose rebuild succeeded have each caused one
\* message, but for the one the task is sending right now
OneMessagePerRebuild ==
    /\ Cardinality(WatchMessages) + (IF task = "send" THEN 1 ELSE 0) = rebuilt
    /\ task = "send" => (last.called /\ last.exists /\ last.err = NoErr /\ taskConf = last.conf)

\* a step changes the sent messages only by appending one; the one the
\* task appends carries the snapshot of its last rebuild
AppendOnly ==
    \/ sent' = sent
    \/ /\ Len(sent') = Len(sent) + 1
       /\ SubSeq(sent', 1, Len(sent)) = sent
       /\ sent'[Len(sent')].from = "watch" =>
             (task = "send" /\ sent'[Len(sent')].Configuration = last.conf)

\* C3: each relevant event whose rebuild succeeds causes exactly one
\* message, carrying the snapshot of that rebuild: the watch-triggered
\* messages sent number the successful rebuilds (less the one being sent),
\* and the sequence of sent messages only grows by appending
C3_NoCoalescing == [](OneMessagePerRebuild) /\ [][AppendOnly]_vars

\* two events, two successful rebuilds of different snapshots, two
\* watch-triggered messages after the initial one
C3_Witness ==
    /\ rebuilt = 2
    /\ task = "select"
    /\ Len(sent) = 3
    /\ sent[1].from = "initial"
    /\ sent[2].from = "watch"
    /\ sent[3].from = "watch"
    /\ sent[2].Configuration # sent[3].Configuration

\* a step in which the task handles a relevant event whose rebuild fails
FailedRebuild == failures' = failures + 1

\* C4: a watch-triggered rebuild that fails sends no message and leaves
\* the task watching, its subscription open
C4_FailedRebuildKeepsWatching ==
    [][FailedRebuild =>
          /\ sent' = sent
          /\ task' = "select"
          /\ watcher' = "open"
          /\ rebuilt' = rebuilt]_vars

\* after a failed rebuild, a later event has been rebuilt and delivered
C4_Witness ==
    /\ failures = 1
    /\ rebuilt = 1
    /\ last.called /\ last.exists /\ last.err = NoErr
    /\ task = "select"
    /\ \E i \in WatchMessages : sent[i].Configuration = last.conf

Running == task \in {"select", "send"}
Terminated == task = "done"

\* C5 as claimed: once stop is raised while the task runs, the task
\* terminates with its subscription closed, whatever the consumer does
C5_StopAlwaysTerminates ==
    (stop /\ Running) ~> (Terminated /\ watcher = "closed")

\* the task is in its send and the channel is full
SendBlocked == task = "send" /\ Len(sent) - received >= ChanCap

\* C5 amended: once stop is raised while the task runs, the task
\* terminates with its subscription closed, or stays blocked in a send the
\* consumer does not take; and a terminated task's subscription is closed
C5_StopTerminatesUnlessBlocked ==
    /\ ([]<>(~SendBlocked)) => ((stop /\ Running) ~> (Terminated /\ watcher = "closed"))
    /\ [](Terminated => watcher = "closed")

\* the task was stopped while it had sent a rebuilt snapshot, and has
\* terminated
C5_Witness ==
    /\ stop
    /\ Terminated
    /\ watcher = "closed"
    /\ WatchMessages # {}

\* the last component of path: what follows its last separator
RECURSIVE BaseName(_)
BaseName(path) ==
    IF path = EmptyStr THEN EmptyStr
    ELSE IF \E i \in 1..Len(path) : path[i] = Slash
    THEN BaseName(Tail(path))
    ELSE path

ConfiguredFile == IF p.Filename # EmptyStr THEN p.Filename ELSE p.TraefikFile

\* whether an event is relevant: any event for a directory target, an
\* event with the configured file's name for a file target
IsRelevant(evtName) ==
    \/ p.Directory # EmptyStr
    \/ BaseName(evtName) = BaseName(ConfiguredFile)

\* a step in which the task handles an event that is not relevant
IrrelevantEvent ==
    /\ last'.name # EmptyStr
    /\ ~IsRelevant(last'.name)
    /\ notified' = notified + 1
    /\ last'.kind = "event"

\* C9: the event the task handled last reached the callback if and only
\* if it is relevant, and handling an event that is not relevant rebuilds
\* nothing and sends nothing
C9_RelevanceFilter ==
    /\ [](last.name # EmptyStr => (last.called <=> IsRelevant(last.name)))
    /\ [][IrrelevantEvent =>
             (sent' = sent /\ task' = task /\ rebuilt' = rebuilt /\ failures' = failures)]_vars

\* with a file target, an event for another file of the directory was
\* dropped, after an earlier event for the file was rebuilt and delivered
C9_Witness ==
    /\ p.Directory = EmptyStr
    /\ p.Filename = FilePath
    /\ last.name = OtherPath
    /\ ~last.called
    /\ rebuilt = 1
    /\ Cardinality(WatchMessages) = 1

NoTargetSet == p.Directory = EmptyStr /\ p.Filename = EmptyStr /\ p.TraefikFile = EmptyStr

\* C10: with no directory, filename or fallback file, Provide returns the
\* configuration-target error, no watch task or watcher exists and no
\* message is sent
C10_NoTarget ==
    NoTargetSet =>
        /\ provide \in {"start", "returned"}
        /\ provide = "returned" => provideErr = "no filename defined"
        /\ task = "none"
        /\ watcher = "none"
        /\ sent = << >>

\* Provide has returned for a provider with Watch and no target
C10_Witness ==
    /\ NoTargetSet
    /\ p.Watch
    /\ provide = "returned"
    /\ provideErr = "no filename defined"

(***************************************************************************)
(* Errors of Provide (Spec).                                               *)
(***************************************************************************)
\* the errors a build returns for what it finds on disk
BuildErrors == {"readdir", "subdirectory", "read", "decode"}
SetupErrors == {"error creating file watcher", "error adding file watcher"}

\* C11: when the initial build of Provide fails (a file or directory that
\* cannot be read, a subdirectory that cannot be listed, a render or decode
\* error), Provide returns that error, no message has been sent and no
\* watch task or watcher exists; a rebuild of the watch task that fails
\* changes neither what Provide returned nor where Provide is.
C11_BuildFailure ==
    /\ [](built.done /\ built.err \in BuildErrors =>
             /\ provide = "returned"
             /\ provideErr = built.err
             /\ sent = << >>
             /\ task = "none"
             /\ watcher = "none")
    /\ [][FailedRebuild =>
             (provide' = provide /\ provideErr' = provideErr /\ built' = built)]_vars

\* with Watch set, the initial build of a directory found a subdirectory it
\* could not list, and Provide has returned
C11_Witness ==
    /\ p.Watch
    /\ built.done
    /\ built.err = "subdirectory"
    /\ provide = "returned"

\* C12: when the watcher cannot be created or the directory cannot be added
\* to it, Provide returns that error, no watch task exists, no message has
\* been sent (the snapshot already built is not delivered), and nothing
\* happens afterwards: no task, message or watcher appears later.
C12_SetupFailure ==
    /\ [](provideErr \in SetupErrors =>
             /\ provide = "returned"
             /\ built.done /\ built.err = NoErr
             /\ task = "none"
             /\ notified = 0
             /\ sent = << >>)
    /\ [][(provideErr \in SetupErrors) =>
             UNCHANGED << provideErr, task, sent, watcher, watched >>]_vars

\* the initial build gave a snapshot, adding the directory to the watcher
\* failed and Provide has returned
C12_Witness ==
    /\ provideErr = "error adding file watcher"
    /\ provide = "returned"
    /\ ~configuration.isNil
    /\ sent = << >>

(***************************************************************************)
(* Conflict warnings of the aggregator (AggSpec).                          *)
(***************************************************************************)
\* C13: in a run that returns no error, the number of conflict warnings
\* logged for a kind (router, middleware, service) and a name is the number
\* of eligible files of the tree that define it, less one: none for a name
\* defined by one file or by none, one for a name defined by two files.
C13_ConflictWarnings ==
    RunOK(run1) =>
        \A kind \in Kinds : \A name \in Names :
            LET m == Cardinality(Definers(kind, name))
            IN  run1.warns[<< kind, name >>] = IF m = 0 THEN 0 ELSE m - 1

\* a run over a tree in which two files define the same router: one
\* warning for it, and none for any other kind or name
C13_Witness ==
    /\ RunOK(run1)
    /\ \E name \in Names :
          /\ Cardinality(Definers("Routers", name)) = 2
          /\ run1.warns[<< "Routers", name >>] = 1
          /\ \A k \in WarnKeys : k # << "Routers", name >> => run1.warns[k] = 0

(***************************************************************************)
(* The empty defaults of loadFileConfig (LoadSpec).                        *)
(***************************************************************************)
\* what the decoder chosen by parseTemplate returns for the file
Decoded == IF parseTemplate THEN fileNode.text.tmpl ELSE fileNode.text.toml

\* a decoded configuration without any router, middleware, service or TLS
\* entry: none at all, or one whose sections are absent or empty
NoEntries(d) ==
    \/ d.conf.isNil
    \/ /\ \A kind \in Kinds : DOMAIN d.conf.v[kind].kv = {}
       /\ d.conf.v.TLS = << >>

\* C14: when loadFileConfig returns no error for a file that decodes to no
\* configuration, or to a configuration without routers, middlewares,
\* services and TLS entries, the configuration it returns has non-nil, empty
\* mappings of routers, middlewares and services, whether the file was
\* rendered as a template or decoded directly.
C14_EmptyDefaults ==
    (loaded.done /\ loaded.err = NoErr /\ NoEntries(Decoded)) =>
        /\ ~loaded.conf.isNil
        /\ \A kind \in Kinds :
              /\ ~loaded.conf.v[kind].isNil
              /\ DOMAIN loaded.conf.v[kind].kv = {}

(***************************************************************************)
(* The target of the provider (Spec).                                      *)
(***************************************************************************)
\* the target by precedence: the directory, else the file, else the
\* fallback file; and the directory to watch for it
Target == IF p.Directory # EmptyStr THEN p.Directory ELSE ConfiguredFile
TargetDirectory == IF p.Directory # EmptyStr THEN p.Directory ELSE Dir(Target)

\* C15: the initial build loads from the target, the watcher is subscribed
\* to the target's directory, an event reaches the callback exactly when it
\* is relevant for the target, and the callback checks the existence of the
\* target and rebuilds from it; the target being the directory when one is
\* set, whatever the filename and fallback file are.
C15_TargetPrecedence ==
    /\ built.done => built.read = Target
    /\ task # "none" => watched = TargetDirectory
    /\ last.kind = "event" => (last.called <=> IsRelevant(last.name))
    /\ last.called => last.stat = Target
    /\ (last.called /\ last.exists) => last.read = Target

\* with a directory, a filename and a fallback file all set, the initial
\* build and a rebuild after an event have loaded the directory
C15_Witness ==
    /\ p.Directory # EmptyStr /\ p.Filename # EmptyStr /\ p.TraefikFile # EmptyStr
    /\ built.done /\ built.read = p.Directory
    /\ watched = p.Directory
    /\ last.called /\ last.exists
    /\ last.stat = p.Directory /\ last.read = p.Directory
    /\ rebuilt = 1

(***************************************************************************)
(* The order of the messages (Spec).                                       *)
(***************************************************************************)
\* C16: with Watch set, the first message put on the channel is the
\* snapshot of the initial build: no message of the watch task precedes it,
\* and what the consumer has received starts with it.
C16_InitialFirst ==
    (p.Watch /\ sent # << >>) => sent[1].from = "initial"

(***************************************************************************)
(* Errors of the watcher and a missing target (Spec).                      *)
(***************************************************************************)
\* a step in which the task takes an error from watcher.Errors
ErrorStep == notified' = notified + 1 /\ last'.kind = "error"

\* C17: taking an error of the watcher sends no message, rebuilds nothing,
\* leaves the watcher open and the task in its select; if the stop signal
\* is raised the task can still take it.
C17_RuntimeErrorNonFatal ==
    /\ [][ErrorStep =>
             /\ task = "select" /\ task' = "select"
             /\ watcher = "open" /\ watcher' = "open"
             /\ UNCHANGED << sent, taskConf, rebuilt, failures, missing, stop, watched >>]_vars
    /\ []((last.kind = "error" /\ task = "select" /\ stop) => ENABLED TaskStop)

\* the last notification the task handled was an error of the watcher;
\* it has taken the stop signal afterwards and closed the watcher
C17_Witness ==
    /\ last.kind = "error"
    /\ stop
    /\ task = "done"
    /\ watcher = "closed"

\* a step in which the callback finds that the target does not exist
MissingTarget ==
    /\ notified' = notified + 1
    /\ last'.kind = "event"
    /\ last'.called
    /\ ~last'.exists

\* a step in which the callback finds the target and rebuilds it
FoundTarget ==
    /\ notified' = notified + 1
    /\ last'.kind = "event"
    /\ last'.called
    /\ last'.exists
    /\ last'.err = NoErr

\* C18: when a relevant event finds the target missing, the callback
\* rebuilds nothing (it reads no file or directory) and sends no message,
\* and the task stays in its select with the watcher open; an event that
\* finds the target and rebuilds it takes the task to the send of the
\* rebuilt snapshot.
C18_MissingTarget ==
    /\ [][MissingTarget =>
             /\ task' = "select"
             /\ watcher' = "open"
             /\ last'.read = EmptyStr
             /\ missing' = missing + 1
             /\ UNCHANGED << sent, taskConf, rebuilt, failures >>]_vars
    /\ [][FoundTarget =>
             /\ task' = "send"
             /\ taskConf' = last'.conf
             /\ rebuilt' = rebuilt + 1]_vars

\* after an event that found the target missing, a later event has found
\* it, rebuilt it, and its message is on the channel
C18_Witness ==
    /\ missing = 1
    /\ notified = 2
    /\ last.called /\ last.exists /\ last.err = NoErr
    /\ rebuilt = 1
    /\ task = "select"
    /\ \E i \in 1..Len(sent) : sent[i].from = "watch" /\ sent[i].Configuration = last.conf

(***************************************************************************)
(* The watcher as a resource (Spec).                                       *)
(***************************************************************************)
\* C19: a watcher that addWatcher has created is closed, or it belongs to
\* a watch task that has not terminated; in particular it is not left open
\* when adding the directory fails and addWatcher returns the error.
C19_NoLeakedWatcher ==
    watcher = "open" => task \in {"select", "send"}

=============================================================================
